---------------------------- MODULE Spec2Model ----------------------------
(***************************************************************************)
(* A model of combineEpubs (the EPUB merging engine).  JavaScript strings  *)
(* are TLA+ strings; Len, \o and SubSeq act on them character by           *)
(* character.  A source archive is the parsed view the code obtains from   *)
(* JSZip and xml2js: the entries of the archive, the container document,   *)
(* and the package document (metadata, manifest, spine).                   *)
(***************************************************************************)
EXTENDS Integers, Sequences, FiniteSets, TLC

(***************************************************************************)
(* Bounds of the model.                                                    *)
(***************************************************************************)
MaxBooks == 2

(***************************************************************************)
(* String functions of JavaScript used by the code.                        *)
(***************************************************************************)
\* the value of an absent property (undefined) or of zip.file() on a missing entry (null)
Absent == "<absent>"

CharAt(s, k) == SubSeq(s, k, k)

\* s.startsWith(p)
StartsWith(s, p) == Len(s) >= Len(p) /\ SubSeq(s, 1, Len(p)) = p

\* whether pat occurs in s at (1-based) position k
MatchAt(s, pat, k) == k >= 1 /\ k + Len(pat) - 1 <= Len(s) /\ SubSeq(s, k, k + Len(pat) - 1) = pat

\* s.includes(pat)
Contains(s, pat) == \E k \in 1..(Len(s) + 1) : MatchAt(s, pat, k)

\* s.lastIndexOf(c) + 1: the 1-based position of the last c in s, 0 when there is none
LastIndexOf(s, c) ==
    LET hits == {k \in 1..Len(s) : CharAt(s, k) = c}
    IN  IF hits = {} THEN 0 ELSE CHOOSE k \in hits : \A j \in hits : j <= k

\* s.substring(0, s.lastIndexOf('/') + 1)
DirName(s) == SubSeq(s, 1, LastIndexOf(s, "/"))

\* s.substring(s.lastIndexOf('/') + 1)
BaseName(s) == SubSeq(s, LastIndexOf(s, "/") + 1, Len(s))

\* s.replace(pat, rep) with a string pattern: the first occurrence only
ReplaceFirst(s, pat, rep) ==
    LET hits == {k \in 1..(Len(s) + 1) : MatchAt(s, pat, k)}
    IN  IF hits = {} THEN s
        ELSE LET k == CHOOSE h \in hits : \A j \in hits : h <= j
             IN  SubSeq(s, 1, k - 1) \o rep \o SubSeq(s, k + Len(pat), Len(s))

\* s.replace(new RegExp(escaped pat, 'g'), rep): every leftmost, non-overlapping
\* literal occurrence of pat, scanning from position k; an empty pattern matches
\* before every character and at the end
RECURSIVE ReplaceFrom(_, _, _, _)
ReplaceFrom(s, pat, rep, k) ==
    IF k > Len(s) THEN (IF pat = "" THEN rep ELSE "")
    ELSE IF pat = "" THEN rep \o CharAt(s, k) \o ReplaceFrom(s, pat, rep, k + 1)
    ELSE IF MatchAt(s, pat, k) THEN rep \o ReplaceFrom(s, pat, rep, k + Len(pat))
    ELSE CharAt(s, k) \o ReplaceFrom(s, pat, rep, k + 1)

ReplaceAll(s, pat, rep) == ReplaceFrom(s, pat, rep, 1)

\* `${n}` for a non-negative integer
Digits == <<"0", "1", "2", "3", "4", "5", "6", "7", "8", "9">>

RECURSIVE NumberToString(_)
NumberToString(n) ==
    IF n < 10 THEN Digits[n + 1] ELSE NumberToString(n \div 10) \o Digits[(n % 10) + 1]

(***************************************************************************)
(* Source archives.  A book is what JSZip.loadAsync and parseXML give the  *)
(* code: whether the buffer is a ZIP archive, the container document       *)
(* ("absent", "unparsable", "nopath": no full-path attribute, "ok"), the   *)
(* package document ("absent", "unparsable", "nometadata", "nomanifest",   *)
(* "nospine", "ok"), its dc: metadata, its manifest items and spine idrefs *)
(* in document order, and the other entries of the archive                 *)
(* (path :> content).                                                      *)
(***************************************************************************)
XHTML == "application/xhtml+xml"
JPEG == "image/jpeg"
CSS == "text/css"
TTF == "font/ttf"
NCX == "application/x-dtbncx+xml"

Item(id, href, mediaType) == [id |-> id, href |-> href, mediaType |-> mediaType]

\* the dc:identifier every source book carries
SourceIdentifier == "urn:uuid:source"

\* the values uuidv4() can return
UUIDs == {"uuid-1", "uuid-2"}

ValidBook(fullPath, title, creator, language, manifest, spine, files) ==
    [isZip |-> TRUE, container |-> "ok", fullPath |-> fullPath, opf |-> "ok",
     title |-> title, creator |-> creator, language |-> language,
     identifier |-> SourceIdentifier,
     manifest |-> manifest, spine |-> spine, files |-> files]

BrokenBook(isZip, container, opf) ==
    [isZip |-> isZip, container |-> container, fullPath |-> "OPS/p.opf", opf |-> opf,
     title |-> Absent, creator |-> Absent, language |-> Absent,
     identifier |-> SourceIdentifier,
     manifest |-> <<Item("c1", "c1.xhtml", XHTML)>>, spine |-> <<"c1">>,
     files |-> ("OPS/c1.xhtml" :> "text")]

\* two chapters, one image, one style, one font, all referenced
Alpha ==
    ValidBook("OPS/p.opf", "Alpha", "Ann", "fr",
        <<Item("ncx", "toc.ncx", NCX), Item("c1", "c1.xhtml", XHTML),
          Item("c2", "c2.xhtml", XHTML), Item("i1", "pic.jpg", JPEG),
          Item("s1", "s.css", CSS), Item("f1", "f.ttf", TTF)>>,
        <<"c1", "c2">>,
        "OPS/c1.xhtml" :> "<img pic.jpg><link s.css>" @@ "OPS/c2.xhtml" :> "font f.ttf"
        @@ "OPS/pic.jpg" :> "JPEG-A" @@ "OPS/s.css" :> "CSS-A" @@ "OPS/f.ttf" :> "TTF-A"
        @@ "OPS/toc.ncx" :> "NCX-A")

\* package document at the archive root; an image named like Alpha's; no dc:creator
Beta ==
    ValidBook("p.opf", "Beta", Absent, "de",
        <<Item("c1", "c1.xhtml", XHTML), Item("i1", "pic.jpg", JPEG)>>,
        <<"c1">>,
        "c1.xhtml" :> "<img pic.jpg> s.css" @@ "pic.jpg" :> "JPEG-B")

\* the spine lists the same idref twice; no dc:title, no dc:language
DupSpine ==
    ValidBook("OPS/p.opf", Absent, "Dee", Absent,
        <<Item("c1", "c1.xhtml", XHTML)>>,
        <<"c1", "c1">>,
        "OPS/c1.xhtml" :> "twice")

\* the manifest repeats an item id
DupId ==
    ValidBook("OPS/p.opf", "DupId", "Ida", "en",
        <<Item("c1", "c1.xhtml", XHTML), Item("i1", "x.jpg", JPEG), Item("i1", "y.jpg", JPEG)>>,
        <<"c1">>,
        "OPS/c1.xhtml" :> "<img x.jpg><img y.jpg>" @@ "OPS/x.jpg" :> "JPEG-X"
        @@ "OPS/y.jpg" :> "JPEG-Y")

\* ids 'a' and 'a_b' with files 'b_c.jpg' and 'c.jpg'
Concat ==
    ValidBook("OPS/p.opf", "Concat", "Cat", "en",
        <<Item("c1", "c1.xhtml", XHTML), Item("a", "b_c.jpg", JPEG), Item("a_b", "c.jpg", JPEG)>>,
        <<"c1">>,
        "OPS/c1.xhtml" :> "plain" @@ "OPS/b_c.jpg" :> "JPEG-1" @@ "OPS/c.jpg" :> "JPEG-2")

\* the spine names an idref the manifest lacks; manifest order differs from spine order
Dangling ==
    ValidBook("OPS/p.opf", "Dangling", "Dan", "en",
        <<Item("c2", "c2.xhtml", XHTML), Item("c1", "c1.xhtml", XHTML)>>,
        <<"c1", "zz", "c2">>,
        "OPS/c1.xhtml" :> "one" @@ "OPS/c2.xhtml" :> "two")

\* manifest items whose file is not in the archive
MissingFile ==
    ValidBook("OPS/p.opf", "Missing", "Mia", "en",
        <<Item("c1", "c1.xhtml", XHTML), Item("c2", "c2.xhtml", XHTML),
          Item("i1", "gone.jpg", JPEG), Item("i2", "here.jpg", JPEG),
          Item("s1", "gone.css", CSS), Item("f1", "gone.ttf", TTF)>>,
        <<"c1", "c2">>,
        "OPS/c1.xhtml" :> "<img here.jpg>" @@ "OPS/here.jpg" :> "JPEG-H")

\* one asset's href is the tail of another's
Cascade ==
    ValidBook("OPS/p.opf", "Cascade", "Cas", "en",
        <<Item("c1", "c1.xhtml", XHTML), Item("i1", "img/pic.jpg", JPEG),
          Item("i2", "pic.jpg", JPEG)>>,
        <<"c1">>,
        "OPS/c1.xhtml" :> "<img img/pic.jpg>" @@ "OPS/img/pic.jpg" :> "JPEG-D"
        @@ "OPS/pic.jpg" :> "JPEG-P")

\* no spine entry resolves to an XHTML item
NoChapters ==
    ValidBook("OPS/p.opf", "Empty", "Eve", "en",
        <<Item("ncx", "toc.ncx", NCX), Item("s1", "s.css", CSS)>>,
        <<"ncx">>,
        "OPS/toc.ncx" :> "NCX-E" @@ "OPS/s.css" :> "CSS-E")

\* the spine section lists no itemref
EmptySpine ==
    ValidBook("OPS/p.opf", "Spineless", "Sy", "en",
        <<Item("c1", "c1.xhtml", XHTML)>>,
        <<>>,
        "OPS/c1.xhtml" :> "unread")

NotZip == BrokenBook(FALSE, "ok", "ok")
NoContainer == BrokenBook(TRUE, "absent", "ok")
BadContainer == BrokenBook(TRUE, "unparsable", "ok")
NoRootPath == BrokenBook(TRUE, "nopath", "ok")
NoOpf == BrokenBook(TRUE, "ok", "absent")
BadOpf == BrokenBook(TRUE, "ok", "unparsable")
NoMetadata == BrokenBook(TRUE, "ok", "nometadata")
NoManifest == BrokenBook(TRUE, "ok", "nomanifest")
NoSpine == BrokenBook(TRUE, "ok", "nospine")

Books == {Alpha, Beta, DupSpine, DupId, Concat, Dangling, MissingFile, Cascade, NoChapters,
          EmptySpine,
          NotZip, NoContainer, BadContainer, NoRootPath, NoOpf, BadOpf, NoMetadata,
          NoManifest, NoSpine}

\* the argument lists of combineEpubs: 1 to MaxBooks buffers
Inputs == UNION {[1..n -> Books] : n \in 1..MaxBooks}

(***************************************************************************)
(* The state of one call of combineEpubs.                                  *)
(***************************************************************************)
VARIABLES
    epubBuffers,        \* the argument
    pc,                 \* the position of the call
    i,                  \* the book loop index (0-based, as in the code)
    k,                  \* the position in the spine or manifest loop (1-based)
    allChapters, allImages, allStyles, allFonts,
    bookMetadata, combinedMetadata,
    outputZip,          \* the entries of the output archive, in insertion order
    tocHTML,            \* the entries of the Table of Contents page
    manifestItems, spineItems, navPoints,
    opfContent,         \* the metadata block of content.opf
    ncxContent,         \* the head block of toc.ncx
    epubBuffer,         \* the returned buffer: the entries of the generated archive
    error               \* the name of the thrown error, or Absent

(***************************************************************************)
(* The state of one POST /combine-epubs request around that call.          *)
(***************************************************************************)
VARIABLES
    request,            \* the file parts of the multipart body, in stream order
    reqFiles,           \* req.files
    middlewareError,    \* the error the upload middleware hands to next(err)
    res,                \* the response: status, headers set, bodies sent (a count), last body
    httpPc              \* the position of the request

http == <<request, reqFiles, middlewareError, res, httpPc>>

(***************************************************************************)
(* A second call of combineEpubs in the same process.  The variables of    *)
(* the call above are those of the call whose continuation runs; the other *)
(* call is suspended at one of its awaits, with its locals kept by its     *)
(* closure.                                                                *)
(***************************************************************************)
VARIABLES
    other,              \* the locals of the suspended call
    current             \* which of the two calls is running: 1 or 2

suspended == <<other, current>>

vars == <<epubBuffers, pc, i, k, allChapters, allImages, allStyles, allFonts,
          bookMetadata, combinedMetadata, outputZip, tocHTML,
          manifestItems, spineItems, navPoints, opfContent, ncxContent, epubBuffer, error,
          request, reqFiles, middlewareError, res, httpPc, other, current>>

\* no error
NoError == [name |-> Absent, code |-> Absent, message |-> Absent]

\* a response on which nothing has been set or sent
NoResponse ==
    [status |-> 200, headers |-> {}, sent |-> 0,
     body |-> [kind |-> Absent, error |-> Absent, message |-> Absent,
               details |-> Absent, buffer |-> <<>>]]

\* the locals of a call that has not been made
IdleCall ==
    [epubBuffers |-> <<>>, pc |-> "idle", i |-> 0, k |-> 1,
     allChapters |-> <<>>, allImages |-> <<>>, allStyles |-> <<>>, allFonts |-> <<>>,
     bookMetadata |-> <<>>,
     combinedMetadata |-> [title |-> "Combined EPUB", author |-> "Multiple Authors",
                           language |-> "en", identifier |-> Absent],
     outputZip |-> <<>>, tocHTML |-> <<>>,
     manifestItems |-> <<>>, spineItems |-> <<>>, navPoints |-> <<>>,
     opfContent |-> [metadata |-> [title |-> Absent, creator |-> Absent,
                                   language |-> Absent, identifier |-> Absent]],
     ncxContent |-> [head |-> [uid |-> Absent, depth |-> Absent,
                               totalPageCount |-> Absent, maxPageNumber |-> Absent]],
     epubBuffer |-> <<>>, error |-> Absent]

records == <<allChapters, allImages, allStyles, allFonts>>
metadata == <<bookMetadata, combinedMetadata>>
assembly == <<outputZip, tocHTML, manifestItems, spineItems, navPoints,
              opfContent, ncxContent, epubBuffer>>

Init ==
    /\ epubBuffers \in Inputs
    /\ pc = "load"
    /\ i = 0
    /\ k = 1
    /\ allChapters = <<>> /\ allImages = <<>> /\ allStyles = <<>> /\ allFonts = <<>>
    /\ bookMetadata = <<>>
    /\ \E uuid \in UUIDs :
           combinedMetadata = [title |-> "Combined EPUB", author |-> "Multiple Authors",
                               language |-> "en", identifier |-> uuid]
    /\ outputZip = <<>>
    /\ tocHTML = <<>>
    /\ manifestItems = <<>> /\ spineItems = <<>> /\ navPoints = <<>>
    /\ opfContent = [metadata |-> [title |-> Absent, creator |-> Absent,
                                   language |-> Absent, identifier |-> Absent]]
    /\ ncxContent = [head |-> [uid |-> Absent, depth |-> Absent,
                               totalPageCount |-> Absent, maxPageNumber |-> Absent]]
    /\ epubBuffer = <<>>
    /\ error = Absent
    /\ request = <<>> /\ reqFiles = <<>>
    /\ middlewareError = NoError
    /\ res = NoResponse
    /\ httpPc = "idle"
    /\ other = IdleCall
    /\ current = 1

\* the book being processed: epubBuffers[i] of the code
Book == epubBuffers[i + 1]

\* zip.file(path): the entry's content, or Absent (null)
ZipFile(book, path) == IF path \in DOMAIN book.files THEN book.files[path] ELSE Absent

\* contentOpfPath.substring(0, contentOpfPath.lastIndexOf('/') + 1)
BaseDir(book) == DirName(book.fullPath)

\* whether manifestMap[itemId] is defined
InManifestMap(manifest, itemId) == \E n \in 1..Len(manifest) : manifest[n].id = itemId

\* manifestMap[itemId]: the last manifest item with that id
ManifestMap(manifest, itemId) ==
    LET hits == {n \in 1..Len(manifest) : manifest[n].id = itemId}
    IN  manifest[CHOOSE n \in hits : \A m \in hits : m <= n]

\* a throw inside the async function: the promise rejects with that error
Throw(name) ==
    /\ pc' = "failed"
    /\ error' = name
    /\ UNCHANGED <<http, suspended, epubBuffers, i, k, records, metadata, assembly>>

\* a buffer that is no ZIP archive skipped instead of failing the call
LoadZipSkipsBadBuffer ==
    /\ pc = "load"
    /\ IF Book.isZip
       THEN pc' = "container" /\ i' = i
       ELSE i' = i + 1 /\ pc' = IF i + 1 < Len(epubBuffers) THEN "load" ELSE "rewrite"
    /\ UNCHANGED <<http, suspended, epubBuffers, k, records, metadata, assembly, error>>

\* await JSZip.loadAsync(epubBuffer)
LoadZip ==
    /\ pc = "load"
    /\ IF Book.isZip
       THEN /\ pc' = "container"
            /\ UNCHANGED <<http, suspended, epubBuffers, i, k, records, metadata, assembly, error>>
       ELSE Throw("Error")

\* zip.file('META-INF/container.xml').async('string'), parseXML, full-path, baseDir
ReadContainer ==
    /\ pc = "container"
    /\ IF Book.container = "ok"
       THEN /\ pc' = "opf"
            /\ UNCHANGED <<http, suspended, epubBuffers, i, k, records, metadata, assembly, error>>
       ELSE IF Book.container = "unparsable"
       THEN Throw("Error")
       ELSE Throw("TypeError")

\* the fallback title numbered from 0 instead of 1
BookMetadataZeroBased(book, index) ==
    [title |-> IF book.title # Absent THEN book.title ELSE "Book " \o NumberToString(index),
     author |-> IF book.creator # Absent THEN book.creator ELSE "Unknown Author",
     bookIndex |-> index]

\* the title, author and bookIndex pushed to bookMetadata
BookMetadataOf(book, index) ==
    [title |-> IF book.title # Absent THEN book.title ELSE "Book " \o NumberToString(index + 1),
     author |-> IF book.creator # Absent THEN book.creator ELSE "Unknown Author",
     bookIndex |-> index]

\* the first book's dc:identifier taken over along with its title, author and language
CombinedMetadataWithSourceIdentifier(old, book, index) ==
    IF index = 0
    THEN [old EXCEPT !.title = IF book.title # Absent THEN book.title ELSE @,
                     !.author = IF book.creator # Absent THEN book.creator ELSE @,
                     !.language = IF book.language # Absent THEN book.language ELSE @,
                     !.identifier = IF book.identifier # Absent THEN book.identifier ELSE @]
    ELSE old

\* the test i === 0 left out: every book overwrites the combined metadata
CombinedMetadataFromEveryBook(old, book, index) ==
    [old EXCEPT !.title = IF book.title # Absent THEN book.title ELSE @,
                !.author = IF book.creator # Absent THEN book.creator ELSE @,
                !.language = IF book.language # Absent THEN book.language ELSE @]

\* combinedMetadata after the book at index has been read
CombinedMetadataOf(old, book, index) ==
    IF index = 0
    THEN [old EXCEPT !.title = IF book.title # Absent THEN book.title ELSE @,
                     !.author = IF book.creator # Absent THEN book.creator ELSE @,
                     !.language = IF book.language # Absent THEN book.language ELSE @]
    ELSE old

\* zip.file(contentOpfPath).async('string'), parseXML, metadata, manifest, spine, manifestMap
ReadOpf ==
    /\ pc = "opf"
    /\ IF Book.opf = "unparsable"
       THEN Throw("Error")
       ELSE IF Book.opf \in {"absent", "nometadata"}
       THEN Throw("TypeError")
       ELSE /\ bookMetadata' = Append(bookMetadata, BookMetadataOf(Book, i))
            /\ combinedMetadata' = CombinedMetadataOf(combinedMetadata, Book, i)
            /\ IF Book.opf \in {"nomanifest", "nospine"} \/ Book.manifest = <<>> \/ Book.spine = <<>>
               THEN /\ pc' = "failed"
                    /\ error' = "TypeError"
                    /\ k' = k
               ELSE /\ pc' = "chapters"
                    /\ k' = 1
                    /\ error' = error
            /\ UNCHANGED <<http, suspended, epubBuffers, i, records, assembly>>

\* the chapter text read at the manifest href itself, without the package folder
NewChapterWithoutBaseDir(book, index, itemId) ==
    LET newChapterId == "chapter_" \o NumberToString(index) \o "_" \o itemId
    IN  [id |-> newChapterId,
         href |-> "OEBPS/Text/" \o newChapterId \o ".xhtml",
         content |-> ZipFile(book, ManifestMap(book.manifest, itemId).href),
         originalHref |-> ManifestMap(book.manifest, itemId).href,
         bookIndex |-> index]

\* the chapter record pushed for the spine entry itemId of the book at index
NewChapter(book, index, itemId) ==
    LET newChapterId == "chapter_" \o NumberToString(index) \o "_" \o itemId
    IN  [id |-> newChapterId,
         href |-> "OEBPS/Text/" \o newChapterId \o ".xhtml",
         content |-> ZipFile(book, BaseDir(book) \o ManifestMap(book.manifest, itemId).href),
         originalHref |-> ManifestMap(book.manifest, itemId).href,
         bookIndex |-> index]

\* whether the spine entry itemId yields a chapter: it resolves to an XHTML item whose file exists
IsChapter(book, itemId) ==
    /\ InManifestMap(book.manifest, itemId)
    /\ ManifestMap(book.manifest, itemId).mediaType = XHTML
    /\ ZipFile(book, BaseDir(book) \o ManifestMap(book.manifest, itemId).href) # Absent

\* the manifest item of a spine entry used without testing that it exists
ExtractChapterUnguarded ==
    /\ pc = "chapters"
    /\ IF ~InManifestMap(Book.manifest, Book.spine[k])
       THEN Throw("TypeError")
       ELSE /\ allChapters' = IF IsChapter(Book, Book.spine[k])
                              THEN Append(allChapters, NewChapter(Book, i, Book.spine[k]))
                              ELSE allChapters
            /\ IF k < Len(Book.spine)
               THEN k' = k + 1 /\ pc' = pc
               ELSE k' = 1 /\ pc' = "images"
            /\ UNCHANGED <<http, suspended, epubBuffers, i, allImages, allStyles, allFonts, metadata,
                           assembly, error>>

\* the chapters taken in the order the manifest declares them
ExtractChapterInManifestOrder ==
    /\ pc = "chapters"
    /\ allChapters' = IF /\ Book.manifest[k].mediaType = XHTML
                         /\ \E p \in 1..Len(Book.spine) : Book.spine[p] = Book.manifest[k].id
                         /\ IsChapter(Book, Book.manifest[k].id)
                      THEN Append(allChapters, NewChapter(Book, i, Book.manifest[k].id))
                      ELSE allChapters
    /\ IF k < Len(Book.manifest)
       THEN k' = k + 1 /\ pc' = pc
       ELSE k' = 1 /\ pc' = "images"
    /\ UNCHANGED <<http, suspended, epubBuffers, i, allImages, allStyles, allFonts, metadata,
                   assembly, error>>

\* one iteration of the spine loop
ExtractChapter ==
    /\ pc = "chapters"
    /\ allChapters' = IF IsChapter(Book, Book.spine[k])
                      THEN Append(allChapters, NewChapter(Book, i, Book.spine[k]))
                      ELSE allChapters
    /\ IF k < Len(Book.spine)
       THEN k' = k + 1 /\ pc' = pc
       ELSE k' = 1 /\ pc' = "images"
    /\ UNCHANGED <<http, suspended, epubBuffers, i, allImages, allStyles, allFonts, metadata, assembly, error>>

\* the asset record pushed for a manifest item: prefix is img, style or font, dir its folder
NewAsset(book, index, item, prefix, dir) ==
    LET newId == prefix \o "_" \o NumberToString(index) \o "_" \o item.id
    IN  [id |-> newId,
         href |-> "OEBPS/" \o dir \o "/" \o newId \o "_" \o BaseName(item.href),
         content |-> ZipFile(book, BaseDir(book) \o item.href),
         mediaType |-> item.mediaType,
         originalHref |-> item.href,
         bookIndex |-> index]

IsImage(book, item) ==
    StartsWith(item.mediaType, "image/") /\ ZipFile(book, BaseDir(book) \o item.href) # Absent

IsStyle(book, item) ==
    item.mediaType = CSS /\ ZipFile(book, BaseDir(book) \o item.href) # Absent

fontTypes == {"application/font-woff", "application/vnd.ms-opentype", "application/x-font-ttf",
              "font/ttf", "font/otf", "font/woff", "font/woff2"}

IsFont(book, item) ==
    item.mediaType \in fontTypes /\ ZipFile(book, BaseDir(book) \o item.href) # Absent

\* the image file read without testing that the archive holds it
ExtractImageUnguarded ==
    /\ pc = "images"
    /\ IF StartsWith(Book.manifest[k].mediaType, "image/")
          /\ ZipFile(Book, BaseDir(Book) \o Book.manifest[k].href) = Absent
       THEN Throw("TypeError")
       ELSE /\ allImages' = IF IsImage(Book, Book.manifest[k])
                            THEN Append(allImages,
                                        NewAsset(Book, i, Book.manifest[k], "img", "Images"))
                            ELSE allImages
            /\ IF k < Len(Book.manifest)
               THEN k' = k + 1 /\ pc' = pc
               ELSE k' = 1 /\ pc' = "styles"
            /\ UNCHANGED <<http, suspended, epubBuffers, i, allChapters, allStyles, allFonts, metadata,
                           assembly, error>>

\* one iteration of the image loop over the manifest
ExtractImage ==
    /\ pc = "images"
    /\ allImages' = IF IsImage(Book, Book.manifest[k])
                    THEN Append(allImages, NewAsset(Book, i, Book.manifest[k], "img", "Images"))
                    ELSE allImages
    /\ IF k < Len(Book.manifest)
       THEN k' = k + 1 /\ pc' = pc
       ELSE k' = 1 /\ pc' = "styles"
    /\ UNCHANGED <<http, suspended, epubBuffers, i, allChapters, allStyles, allFonts, metadata, assembly, error>>

\* one iteration of the CSS loop over the manifest
ExtractStyle ==
    /\ pc = "styles"
    /\ allStyles' = IF IsStyle(Book, Book.manifest[k])
                    THEN Append(allStyles, NewAsset(Book, i, Book.manifest[k], "style", "Styles"))
                    ELSE allStyles
    /\ IF k < Len(Book.manifest)
       THEN k' = k + 1 /\ pc' = pc
       ELSE k' = 1 /\ pc' = "fonts"
    /\ UNCHANGED <<http, suspended, epubBuffers, i, allChapters, allImages, allFonts, metadata, assembly, error>>

\* one iteration of the font loop over the manifest; after the last one, the next book
ExtractFont ==
    /\ pc = "fonts"
    /\ allFonts' = IF IsFont(Book, Book.manifest[k])
                   THEN Append(allFonts, NewAsset(Book, i, Book.manifest[k], "font", "Fonts"))
                   ELSE allFonts
    /\ IF k < Len(Book.manifest)
       THEN k' = k + 1 /\ pc' = pc /\ i' = i
       ELSE /\ k' = 1
            /\ i' = i + 1
            /\ pc' = IF i + 1 < Len(epubBuffers) THEN "load" ELSE "rewrite"
    /\ UNCHANGED <<http, suspended, epubBuffers, allChapters, allImages, allStyles, metadata, assembly, error>>

(***************************************************************************)
(* The synchronous part of the call: reference rewriting, the TOC page,    *)
(* the output entries, content.opf and toc.ncx.                            *)
(***************************************************************************)
\* the same-book test left out: every asset is applied to every chapter
SameBookIgnored(asset, chapter) == TRUE

\* image.bookIndex === chapter.bookIndex
SameBook(asset, chapter) == asset.bookIndex = chapter.bookIndex

\* the reference written relative to OEBPS/ instead of the chapter's folder
RelativePathFromOebps(asset) == ReplaceFirst(asset.href, "OEBPS/", "")

\* `../${asset.href.replace('OEBPS/', '')}`
RelativePath(asset) == "../" \o ReplaceFirst(asset.href, "OEBPS/", "")

\* the loop over allImages (or allStyles) for one chapter, from position n on.
\* The source texts of the model hold no '$', so the replacement patterns of
\* String.prototype.replace never apply.
RECURSIVE UpdateReferences(_, _, _, _)
UpdateReferences(updatedContent, chapter, assets, n) ==
    IF n > Len(assets) THEN updatedContent
    ELSE UpdateReferences(
            IF SameBook(assets[n], chapter)
            THEN ReplaceAll(updatedContent, assets[n].originalHref, RelativePath(assets[n]))
            ELSE updatedContent,
            chapter, assets, n + 1)

\* chapter.content after the image loop and then the style loop
UpdatedContent(chapter, images, styles) ==
    UpdateReferences(UpdateReferences(chapter.content, chapter, images, 1), chapter, styles, 1)

\* allChapters after the rewriting pass
RewriteChapters(chapters, images, styles) ==
    [n \in 1..Len(chapters) |->
        [chapters[n] EXCEPT !.content = UpdatedContent(chapters[n], images, styles)]]

\* whether bookFirstChapters has an entry for the book
HasFirstChapter(chapters, bookIndex) ==
    \E n \in 1..Len(chapters) : chapters[n].bookIndex = bookIndex

\* the last chapter pushed for the book kept instead of the first
BookLastChapter(chapters, bookIndex) ==
    chapters[CHOOSE n \in 1..Len(chapters) :
                /\ chapters[n].bookIndex = bookIndex
                /\ \A m \in (n + 1)..Len(chapters) : chapters[m].bookIndex # bookIndex]

\* bookFirstChapters[bookIndex]: the first chapter pushed for that book
BookFirstChapter(chapters, bookIndex) ==
    chapters[CHOOSE n \in 1..Len(chapters) :
                /\ chapters[n].bookIndex = bookIndex
                /\ \A m \in 1..(n - 1) : chapters[m].bookIndex # bookIndex]

\* the toc-entry blocks appended to tocHTML, one per book with a first chapter
TocEntry(chapters, book) ==
    [number |-> book.bookIndex + 1,
     link |-> ReplaceFirst(BookFirstChapter(chapters, book.bookIndex).href, "OEBPS/", ""),
     title |-> book.title,
     author |-> book.author]

TocEntries(chapters, books) ==
    LET listed == SelectSeq(books, LAMBDA b : HasFirstChapter(chapters, b.bookIndex))
    IN  [n \in 1..Len(listed) |-> TocEntry(chapters, listed[n])]

\* outputZip.file(name, content, {compression}): a new entry is added last, an
\* existing name keeps its place and takes the new content
ZipPut(zip, name, content, compression) ==
    LET entry == [name |-> name, content |-> content, compression |-> compression]
    IN  IF \E n \in 1..Len(zip) : zip[n].name = name
        THEN [n \in 1..Len(zip) |-> IF zip[n].name = name THEN entry ELSE zip[n]]
        ELSE Append(zip, entry)

\* outputZip.file(r.href, r.content) for every record of a list, from position n on
RECURSIVE ZipPutAll(_, _, _)
ZipPutAll(zip, recs, n) ==
    IF n > Len(recs) THEN zip
    ELSE ZipPutAll(ZipPut(zip, recs[n].href, recs[n].content, Absent), recs, n + 1)

\* the loop that writes the fonts left out
ContentFilesWithoutFonts(chapters, images, styles, fonts) ==
    LET z1 == ZipPut(<<>>, "mimetype", "application/epub+zip", "STORE")
        z2 == ZipPut(z1, "META-INF/container.xml", "containerXML", Absent)
        z3 == ZipPut(z2, "OEBPS/Text/toc.xhtml", "tocHTML", Absent)
    IN  ZipPutAll(ZipPutAll(ZipPutAll(z3, chapters, 1), images, 1), styles, 1)

\* steps 1 to 4: mimetype, container.xml, the TOC page, chapters, images, styles, fonts
ContentFiles(chapters, images, styles, fonts) ==
    LET z1 == ZipPut(<<>>, "mimetype", "application/epub+zip", "STORE")
        z2 == ZipPut(z1, "META-INF/container.xml", "containerXML", Absent)
        z3 == ZipPut(z2, "OEBPS/Text/toc.xhtml", "tocHTML", Absent)
    IN  ZipPutAll(ZipPutAll(ZipPutAll(ZipPutAll(z3, chapters, 1), images, 1), styles, 1), fonts, 1)

\* the manifest item pushed for a record
ManifestEntry(rec, mediaType) == Item(rec.id, ReplaceFirst(rec.href, "OEBPS/", ""), mediaType)

\* manifestItems with the fonts left out
ManifestItemsWithoutFonts(chapters, images, styles, fonts) ==
    <<Item("toc-page", "Text/toc.xhtml", XHTML)>>
    \o [n \in 1..Len(chapters) |-> ManifestEntry(chapters[n], XHTML)]
    \o [n \in 1..Len(images) |-> ManifestEntry(images[n], images[n].mediaType)]
    \o [n \in 1..Len(styles) |-> ManifestEntry(styles[n], CSS)]
    \o <<Item("ncx", "toc.ncx", NCX)>>

\* manifestItems: the TOC page, chapters, images, styles, fonts, the NCX
ManifestItems(chapters, images, styles, fonts) ==
    <<Item("toc-page", "Text/toc.xhtml", XHTML)>>
    \o [n \in 1..Len(chapters) |-> ManifestEntry(chapters[n], XHTML)]
    \o [n \in 1..Len(images) |-> ManifestEntry(images[n], images[n].mediaType)]
    \o [n \in 1..Len(styles) |-> ManifestEntry(styles[n], CSS)]
    \o [n \in 1..Len(fonts) |-> ManifestEntry(fonts[n], fonts[n].mediaType)]
    \o <<Item("ncx", "toc.ncx", NCX)>>

\* the TOC page pushed after the chapters instead of before them
SpineItemsTocLast(chapters) == [n \in 1..Len(chapters) |-> chapters[n].id] \o <<"toc-page">>

\* spineItems: the TOC page, then every chapter
SpineItems(chapters) == <<"toc-page">> \o [n \in 1..Len(chapters) |-> chapters[n].id]

\* navPoints whose playOrder and label count from 0
NavPointsZeroBased(chapters) ==
    [n \in 1..Len(chapters) |->
        [id |-> "navPoint-" \o NumberToString(n),
         playOrder |-> NumberToString(n - 1),
         label |-> "Chapter " \o NumberToString(n - 1),
         src |-> ReplaceFirst(chapters[n].href, "OEBPS/", "")]]

\* navPoints of toc.ncx
NavPoints(chapters) ==
    [n \in 1..Len(chapters) |->
        [id |-> "navPoint-" \o NumberToString(n),
         playOrder |-> NumberToString(n),
         label |-> "Chapter " \o NumberToString(n),
         src |-> ReplaceFirst(chapters[n].href, "OEBPS/", "")]]

\* opfContent.package.metadata: the dc elements of content.opf
OpfMetadata(combined) ==
    [title |-> combined.title, creator |-> combined.author,
     language |-> combined.language, identifier |-> combined.identifier]

\* ncxContent.ncx.head: the meta elements of toc.ncx
NcxHead(combined) ==
    [uid |-> combined.identifier, depth |-> "1",
     totalPageCount |-> "0", maxPageNumber |-> "0"]

\* everything between the last read of a source archive and generateAsync
Assemble ==
    /\ pc = "rewrite"
    /\ LET chapters == RewriteChapters(allChapters, allImages, allStyles)
           files == ContentFiles(chapters, allImages, allStyles, allFonts)
       IN  /\ allChapters' = chapters
           /\ tocHTML' = TocEntries(chapters, bookMetadata)
           /\ manifestItems' = ManifestItems(chapters, allImages, allStyles, allFonts)
           /\ spineItems' = SpineItems(chapters)
           /\ navPoints' = NavPoints(chapters)
           /\ opfContent' = [metadata |-> OpfMetadata(combinedMetadata)]
           /\ ncxContent' = [head |-> NcxHead(combinedMetadata)]
           /\ outputZip' = ZipPut(ZipPut(files, "OEBPS/content.opf", "opfXML", Absent),
                                  "OEBPS/toc.ncx", "ncxXML", Absent)
    /\ pc' = "generate"
    /\ UNCHANGED <<http, suspended, epubBuffers, i, k, allImages, allStyles, allFonts, metadata, epubBuffer, error>>

\* generateAsync with the archive-wide compression overriding every entry's own option
GenerateDeflateAll ==
    /\ pc = "generate"
    /\ epubBuffer' = [n \in 1..Len(outputZip) |->
                        [outputZip[n] EXCEPT !.compression = "DEFLATE"]]
    /\ pc' = "done"
    /\ UNCHANGED <<http, suspended, epubBuffers, i, k, records, metadata, outputZip, tocHTML,
                   manifestItems, spineItems, navPoints, opfContent, ncxContent, error>>

\* await outputZip.generateAsync({compression: 'DEFLATE'}) and return
Generate ==
    /\ pc = "generate"
    /\ epubBuffer' = [n \in 1..Len(outputZip) |->
                        [outputZip[n] EXCEPT !.compression = IF @ = Absent THEN "DEFLATE" ELSE @]]
    /\ pc' = "done"
    /\ UNCHANGED <<http, suspended, epubBuffers, i, k, records, metadata, outputZip, tocHTML,
                   manifestItems, spineItems, navPoints, opfContent, ncxContent, error>>

Next ==
    \/ LoadZip
    \/ ReadContainer
    \/ ReadOpf
    \/ ExtractChapter
    \/ ExtractImage
    \/ ExtractStyle
    \/ ExtractFont
    \/ Assemble
    \/ Generate

Spec == Init /\ [][Next]_vars

(***************************************************************************)
(* POST /combine-epubs.  The multipart body is a sequence of file parts;   *)
(* a part has a field name, a file name, a MIME type, a size in bytes and  *)
(* the bytes, given as the book they hold.  multer's upload.array runs     *)
(* first and either fills req.files or hands an error to the error         *)
(* middleware; the route handler validates the count, awaits combineEpubs  *)
(* and sends the archive, or catches what the call throws.                 *)
(***************************************************************************)
\* config.maxFiles (10 in config.js), scaled down
maxFiles == 2

\* config.maxFileSize
maxFileSize == 50 * 1024 * 1024

\* config.outputFilename
outputFilename == "combined.epub"

EPUB == "application/epub+zip"

\* s.endsWith(suffix)
EndsWith(s, suffix) ==
    /\ Len(s) >= Len(suffix)
    /\ SubSeq(s, Len(s) - Len(suffix) + 1, Len(s)) = suffix

UploadedFile(fieldname, originalname, mimetype, size, buffer) ==
    [fieldname |-> fieldname, originalname |-> originalname, mimetype |-> mimetype,
     size |-> size, buffer |-> buffer]

\* the file parts a request is made of
Uploads ==
    {UploadedFile("epubs", "alpha.epub", EPUB, 1024, Alpha),
     UploadedFile("epubs", "beta.bin", EPUB, 2048, Beta),
     UploadedFile("epubs", "broken.epub", "application/octet-stream", 16, NotZip),
     UploadedFile("epubs", "spineless.epub", EPUB, 512, EmptySpine),
     UploadedFile("epubs", "notes.txt", "text/plain", 16, NotZip),
     UploadedFile("epubs", "big.epub", EPUB, maxFileSize + 1, Alpha),
     UploadedFile("file", "alpha.epub", EPUB, 1024, Alpha)}

\* the requests: up to one file part more than the limit
Requests == UNION {[1..n -> Uploads] : n \in 0..(maxFiles + 1)}

\* the fileFilter option: whether the file is accepted
fileFilter(file) == file.mimetype = EPUB \/ EndsWith(file.originalname, ".epub")

MulterError(code, message) == [name |-> "MulterError", code |-> code, message |-> message]

PlainError(message) == [name |-> "Error", code |-> Absent, message |-> message]

\* what upload.array('epubs', config.maxFiles) with the limits makes of the file part
\* at a 1-based position: the files limit, the field name, the filter, the size limit
Rejection(file, position) ==
    IF position > maxFiles THEN MulterError("LIMIT_FILE_COUNT", "Too many files")
    ELSE IF file.fieldname # "epubs" THEN MulterError("LIMIT_UNEXPECTED_FILE", "Unexpected field")
    ELSE IF ~fileFilter(file) THEN PlainError("Only EPUB files are allowed")
    ELSE IF file.size > maxFileSize THEN MulterError("LIMIT_FILE_SIZE", "File too large")
    ELSE NoError

\* the positions of the file parts the upload middleware rejects
Rejected(req) == {p \in 1..Len(req) : Rejection(req[p], p) # NoError}

\* the first of them in stream order
FirstRejected(req) == CHOOSE p \in Rejected(req) : \A q \in Rejected(req) : p <= q

\* res.status(status).json({error, message, details})
Json(r, status, error_, message, details) ==
    [r EXCEPT !.status = status,
              !.headers = @ \cup {<<"Content-Type", "application/json">>},
              !.sent = @ + 1,
              !.body = [kind |-> "json", error |-> error_, message |-> message,
                        details |-> details, buffer |-> <<>>]]

\* `Maximum ${config.maxFiles} files allowed`
MaximumFilesMessage == "Maximum " \o NumberToString(maxFiles) \o " files allowed"

\* `File size must be less than ${config.maxFileSize / (1024 * 1024)}MB`
FileSizeMessage ==
    "File size must be less than " \o NumberToString(maxFileSize \div (1024 * 1024)) \o "MB"

core == <<epubBuffers, pc, i, k, records, metadata, assembly, error>>

HttpInit ==
    /\ request \in Requests
    /\ reqFiles = <<>>
    /\ middlewareError = NoError
    /\ res = NoResponse
    /\ httpPc = "multer"
    /\ other = IdleCall
    /\ current = 1
    /\ epubBuffers = <<>>
    /\ pc = "idle"
    /\ i = 0
    /\ k = 1
    /\ allChapters = <<>> /\ allImages = <<>> /\ allStyles = <<>> /\ allFonts = <<>>
    /\ bookMetadata = <<>>
    /\ combinedMetadata = [title |-> "Combined EPUB", author |-> "Multiple Authors",
                           language |-> "en", identifier |-> Absent]
    /\ outputZip = <<>>
    /\ tocHTML = <<>>
    /\ manifestItems = <<>> /\ spineItems = <<>> /\ navPoints = <<>>
    /\ opfContent = [metadata |-> [title |-> Absent, creator |-> Absent,
                                   language |-> Absent, identifier |-> Absent]]
    /\ ncxContent = [head |-> [uid |-> Absent, depth |-> Absent,
                               totalPageCount |-> Absent, maxPageNumber |-> Absent]]
    /\ epubBuffer = <<>>
    /\ error = Absent

\* upload.array('epubs', config.maxFiles): req.files, or the first error to next(err)
UploadArray ==
    /\ httpPc = "multer"
    /\ IF Rejected(request) = {}
       THEN /\ reqFiles' = request
            /\ middlewareError' = NoError
            /\ httpPc' = "handler"
       ELSE /\ reqFiles' = <<>>
            /\ middlewareError' = Rejection(request[FirstRejected(request)], FirstRejected(request))
            /\ httpPc' = "error"
    /\ UNCHANGED <<suspended, request, res, core>>

\* the error handling middleware
ErrorMiddleware ==
    /\ httpPc = "error"
    /\ res' = IF middlewareError.name = "MulterError" /\ middlewareError.code = "LIMIT_FILE_SIZE"
              THEN Json(res, 400, "File too large", FileSizeMessage, Absent)
              ELSE IF middlewareError.name = "MulterError"
                      /\ middlewareError.code = "LIMIT_FILE_COUNT"
              THEN Json(res, 400, "Too many files", MaximumFilesMessage, Absent)
              ELSE Json(res, 500, "Internal server error", middlewareError.message, Absent)
    /\ httpPc' = "responded"
    /\ UNCHANGED <<suspended, request, reqFiles, middlewareError, core>>

\* the route handler with the check of the minimum left out
PostCombineEpubsWithoutMinimum ==
    /\ httpPc = "handler"
    /\ IF Len(reqFiles) = 0
       THEN /\ res' = Json(res, 400, "No files uploaded",
                           "Please upload at least one EPUB file", Absent)
            /\ httpPc' = "responded"
            /\ UNCHANGED <<epubBuffers, pc, combinedMetadata>>
       ELSE IF Len(reqFiles) > maxFiles
       THEN /\ res' = Json(res, 400, "Too many files", MaximumFilesMessage, Absent)
            /\ httpPc' = "responded"
            /\ UNCHANGED <<epubBuffers, pc, combinedMetadata>>
       ELSE /\ epubBuffers' = [n \in 1..Len(reqFiles) |-> reqFiles[n].buffer]
            /\ pc' = "load"
            /\ \E uuid \in UUIDs :
                   combinedMetadata' = [combinedMetadata EXCEPT !.identifier = uuid]
            /\ httpPc' = "await"
            /\ res' = res
    /\ UNCHANGED <<suspended, request, reqFiles, middlewareError, i, k, records, bookMetadata,
                   assembly, error>>

\* the route handler whose 'Insufficient files' branch answers without returning
PostCombineEpubsWithoutReturn ==
    /\ httpPc = "handler"
    /\ IF Len(reqFiles) = 0
       THEN /\ res' = Json(res, 400, "No files uploaded",
                           "Please upload at least one EPUB file", Absent)
            /\ httpPc' = "responded"
            /\ UNCHANGED <<epubBuffers, pc, combinedMetadata>>
       ELSE IF Len(reqFiles) > maxFiles
       THEN /\ res' = Json(res, 400, "Too many files", MaximumFilesMessage, Absent)
            /\ httpPc' = "responded"
            /\ UNCHANGED <<epubBuffers, pc, combinedMetadata>>
       ELSE /\ epubBuffers' = [n \in 1..Len(reqFiles) |-> reqFiles[n].buffer]
            /\ pc' = "load"
            /\ \E uuid \in UUIDs :
                   combinedMetadata' = [combinedMetadata EXCEPT !.identifier = uuid]
            /\ httpPc' = "await"
            /\ res' = IF Len(reqFiles) < 2
                      THEN Json(res, 400, "Insufficient files",
                                "Please upload at least 2 EPUB files to combine", Absent)
                      ELSE res
    /\ UNCHANGED <<suspended, request, reqFiles, middlewareError, i, k, records, bookMetadata,
                   assembly, error>>

\* the route handler up to its await: the three validations, then the call of
\* combineEpubs with the buffers of req.files
PostCombineEpubs ==
    /\ httpPc = "handler"
    /\ IF Len(reqFiles) = 0
       THEN /\ res' = Json(res, 400, "No files uploaded",
                           "Please upload at least one EPUB file", Absent)
            /\ httpPc' = "responded"
            /\ UNCHANGED <<epubBuffers, pc, combinedMetadata>>
       ELSE IF Len(reqFiles) < 2
       THEN /\ res' = Json(res, 400, "Insufficient files",
                           "Please upload at least 2 EPUB files to combine", Absent)
            /\ httpPc' = "responded"
            /\ UNCHANGED <<epubBuffers, pc, combinedMetadata>>
       ELSE IF Len(reqFiles) > maxFiles
       THEN /\ res' = Json(res, 400, "Too many files", MaximumFilesMessage, Absent)
            /\ httpPc' = "responded"
            /\ UNCHANGED <<epubBuffers, pc, combinedMetadata>>
       ELSE /\ epubBuffers' = [n \in 1..Len(reqFiles) |-> reqFiles[n].buffer]
            /\ pc' = "load"
            /\ \E uuid \in UUIDs :
                   combinedMetadata' = [combinedMetadata EXCEPT !.identifier = uuid]
            /\ httpPc' = "await"
            /\ res' = res
    /\ UNCHANGED <<suspended, request, reqFiles, middlewareError, i, k, records, bookMetadata,
                   assembly, error>>

\* the handler after the await: the three headers, then res.send(combinedEpubBuffer)
SendCombinedEpub ==
    /\ httpPc = "await"
    /\ pc = "done"
    /\ res' = [res EXCEPT
                 !.headers = @ \cup {<<"Content-Type", EPUB>>,
                                     <<"Content-Disposition",
                                       "attachment; filename=\"" \o outputFilename \o "\"">>,
                                     <<"Content-Length", NumberToString(Len(epubBuffer))>>},
                 !.sent = @ + 1,
                 !.body = [kind |-> "epub", error |-> Absent, message |-> Absent,
                           details |-> Absent, buffer |-> epubBuffer]]
    /\ httpPc' = "responded"
    /\ UNCHANGED <<suspended, request, reqFiles, middlewareError, core>>

\* the catch block answering with the status left at its default
CatchErrorDefaultStatus ==
    /\ httpPc = "await"
    /\ pc = "failed"
    /\ res' = Json(res, res.status, "Internal server error", "Failed to combine EPUB files", error)
    /\ httpPc' = "responded"
    /\ UNCHANGED <<suspended, request, reqFiles, middlewareError, core>>

\* the catch block of the handler: combineEpubs has thrown
CatchError ==
    /\ httpPc = "await"
    /\ pc = "failed"
    /\ res' = Json(res, 500, "Internal server error", "Failed to combine EPUB files", error)
    /\ httpPc' = "responded"
    /\ UNCHANGED <<suspended, request, reqFiles, middlewareError, core>>

HttpNext ==
    \/ UploadArray
    \/ ErrorMiddleware
    \/ PostCombineEpubs
    \/ LoadZip
    \/ ReadContainer
    \/ ReadOpf
    \/ ExtractChapter
    \/ ExtractImage
    \/ ExtractStyle
    \/ ExtractFont
    \/ Assemble
    \/ Generate
    \/ SendCombinedEpub
    \/ CatchError

HttpSpec == HttpInit /\ [][HttpNext]_vars

\* the synchronous block of combineEpubs seen through the position only: Assemble has
\* no guard but pc = "rewrite", and it is the one step that leaves that position
AssembleStep == pc = "rewrite" /\ pc' = "generate"

\* the event loop runs every callback that is ready: no request is left waiting forever
\* while one of its steps can be taken.  The fairness of Assemble is stated on its
\* position, which is enabled in the same states and taken by the same steps.
HttpFairSpec ==
    /\ HttpSpec
    /\ WF_vars(\/ UploadArray \/ ErrorMiddleware \/ PostCombineEpubs
               \/ LoadZip \/ ReadContainer \/ ReadOpf
               \/ ExtractChapter \/ ExtractImage \/ ExtractStyle \/ ExtractFont
               \/ Generate \/ SendCombinedEpub \/ CatchError)
    /\ WF_pc(AssembleStep)

(***************************************************************************)
(* Two calls of combineEpubs in one process.  Node runs one continuation   *)
(* at a time, and every action of a call ends at an await, so between any  *)
(* two actions the event loop may resume the other call.                   *)
(***************************************************************************)
\* the argument lists of the two concurrent calls
ConcurrentInputs == {<<Alpha, Beta>>, <<Beta, Alpha>>, <<Beta, NotZip>>}

\* the working set of the running call: every one of them is declared inside combineEpubs
Locals ==
    [epubBuffers |-> epubBuffers,
     pc |-> pc,
     i |-> i,
     k |-> k,
     allChapters |-> allChapters,
     allImages |-> allImages,
     allStyles |-> allStyles,
     allFonts |-> allFonts,
     bookMetadata |-> bookMetadata,
     combinedMetadata |-> combinedMetadata,
     outputZip |-> outputZip,
     tocHTML |-> tocHTML,
     manifestItems |-> manifestItems,
     spineItems |-> spineItems,
     navPoints |-> navPoints,
     opfContent |-> opfContent,
     ncxContent |-> ncxContent,
     epubBuffer |-> epubBuffer,
     error |-> error]

ConcurrentInit ==
    /\ epubBuffers \in ConcurrentInputs
    /\ pc = "load"
    /\ i = 0
    /\ k = 1
    /\ allChapters = <<>> /\ allImages = <<>> /\ allStyles = <<>> /\ allFonts = <<>>
    /\ bookMetadata = <<>>
    /\ outputZip = <<>>
    /\ tocHTML = <<>>
    /\ manifestItems = <<>> /\ spineItems = <<>> /\ navPoints = <<>>
    /\ opfContent = IdleCall.opfContent
    /\ ncxContent = IdleCall.ncxContent
    /\ epubBuffer = <<>>
    /\ error = Absent
    /\ \E uuid1, uuid2 \in UUIDs :
           /\ uuid1 # uuid2
           /\ combinedMetadata = [IdleCall.combinedMetadata EXCEPT !.identifier = uuid1]
           /\ \E second \in ConcurrentInputs :
                  other = [IdleCall EXCEPT !.epubBuffers = second, !.pc = "load",
                                           !.combinedMetadata.identifier = uuid2]
    /\ current = 1
    /\ request = <<>> /\ reqFiles = <<>>
    /\ middlewareError = NoError
    /\ res = NoResponse
    /\ httpPc = "idle"

\* the switch with allChapters declared at module level: both calls push to one list
SwitchCallSharingChapters ==
    /\ other.pc \notin {"idle", "done", "failed"}
    /\ other' = Locals
    /\ current' = 3 - current
    /\ epubBuffers' = other.epubBuffers
    /\ pc' = other.pc
    /\ i' = other.i
    /\ k' = other.k
    /\ allChapters' = allChapters
    /\ allImages' = other.allImages
    /\ allStyles' = other.allStyles
    /\ allFonts' = other.allFonts
    /\ bookMetadata' = other.bookMetadata
    /\ combinedMetadata' = other.combinedMetadata
    /\ outputZip' = other.outputZip
    /\ tocHTML' = other.tocHTML
    /\ manifestItems' = other.manifestItems
    /\ spineItems' = other.spineItems
    /\ navPoints' = other.navPoints
    /\ opfContent' = other.opfContent
    /\ ncxContent' = other.ncxContent
    /\ epubBuffer' = other.epubBuffer
    /\ error' = other.error
    /\ UNCHANGED http

\* the running call is suspended at its await and the other call's continuation runs
SwitchCall ==
    /\ other.pc \notin {"idle", "done", "failed"}
    /\ other' = Locals
    /\ current' = 3 - current
    /\ epubBuffers' = other.epubBuffers
    /\ pc' = other.pc
    /\ i' = other.i
    /\ k' = other.k
    /\ allChapters' = other.allChapters
    /\ allImages' = other.allImages
    /\ allStyles' = other.allStyles
    /\ allFonts' = other.allFonts
    /\ bookMetadata' = other.bookMetadata
    /\ combinedMetadata' = other.combinedMetadata
    /\ outputZip' = other.outputZip
    /\ tocHTML' = other.tocHTML
    /\ manifestItems' = other.manifestItems
    /\ spineItems' = other.spineItems
    /\ navPoints' = other.navPoints
    /\ opfContent' = other.opfContent
    /\ ncxContent' = other.ncxContent
    /\ epubBuffer' = other.epubBuffer
    /\ error' = other.error
    /\ UNCHANGED http

ConcurrentNext ==
    \/ SwitchCall
    \/ LoadZip
    \/ ReadContainer
    \/ ReadOpf
    \/ ExtractChapter
    \/ ExtractImage
    \/ ExtractStyle
    \/ ExtractFont
    \/ Assemble
    \/ Generate

ConcurrentSpec == ConcurrentInit /\ [][ConcurrentNext]_vars

(***************************************************************************)
(* Definitions shared by the properties.                                   *)
(***************************************************************************)
\* the call has passed the synchronous assembly
Assembled == pc \in {"generate", "done"}

\* the call has returned its buffer
Done == pc = "done"

\* every extracted record, chapters first
AllRecords == allChapters \o allImages \o allStyles \o allFonts

\* the assets the rewriting pass considers, in the order it applies them
RewriteAssets == allImages \o allStyles

\* the text of a chapter as it was read from its source archive
SourceText(chapter) ==
    LET book == epubBuffers[chapter.bookIndex + 1]
    IN  ZipFile(book, BaseDir(book) \o chapter.originalHref)

\* whether the output archive holds an entry of that name
InArchive(zip, name) == \E n \in 1..Len(zip) : zip[n].name = name

\* a relative reference resolved against the directory dir (which ends with '/')
RECURSIVE ResolvePath(_, _)
ResolvePath(dir, ref) ==
    IF StartsWith(ref, "../")
    THEN ResolvePath(DirName(SubSeq(dir, 1, Len(dir) - 1)), SubSeq(ref, 4, Len(ref)))
    ELSE dir \o ref

\* the number of chapters a source book yields: its spine entries that resolve
\* to an XHTML manifest item whose file exists
ChapterCount(book) == Cardinality({p \in 1..Len(book.spine) : IsChapter(book, book.spine[p])})

RECURSIVE TotalChapters(_, _)
TotalChapters(books, n) ==
    IF n > Len(books) THEN 0 ELSE ChapterCount(books[n]) + TotalChapters(books, n + 1)

(***************************************************************************)
(* C1.  No two records among all extracted chapters, images, styles and    *)
(* fonts share an id, and no two share an href, whatever the manifests and *)
(* spines of the source books are.                                         *)
(***************************************************************************)
C1_UniqueIdAndHref ==
    \A m, n \in 1..Len(AllRecords) :
        m # n => /\ AllRecords[m].id # AllRecords[n].id
                 /\ AllRecords[m].href # AllRecords[n].href

\* the replacements of a list of assets applied in order, with no test at all
RECURSIVE ReplaceEach(_, _, _)
ReplaceEach(text, assets, n) ==
    IF n > Len(assets) THEN text
    ELSE ReplaceEach(ReplaceAll(text, assets[n].originalHref, RelativePath(assets[n])),
                     assets, n + 1)

\* the images and styles of the chapter's own book, in rewriting order
OwnAssets(chapter) == SelectSeq(RewriteAssets, LAMBDA a : a.bookIndex = chapter.bookIndex)

(***************************************************************************)
(* C2.  The rewriting pass never changes a chapter on account of an asset  *)
(* of another book: the rewritten text is the source text with only the    *)
(* chapter's own book's images and styles applied, and it holds no new     *)
(* reference of any other book's asset, even when that asset's original    *)
(* href occurs literally in the chapter.                                   *)
(***************************************************************************)
C2_NoCrossBookRewriting ==
    Assembled =>
        \A n \in 1..Len(allChapters) :
            LET c == allChapters[n]
            IN  /\ c.content = ReplaceEach(SourceText(c), OwnAssets(c), 1)
                /\ \A m \in 1..Len(RewriteAssets) :
                       RewriteAssets[m].bookIndex # c.bookIndex
                           => ~Contains(c.content, RelativePath(RewriteAssets[m]))

\* two books each with a chapter that names 'pic.jpg' and each with its own image 'pic.jpg'
C2_Witness ==
    /\ Done
    /\ \E m, n \in 1..Len(allChapters) : \E a, b \in 1..Len(allImages) :
          /\ allChapters[m].bookIndex = 0 /\ allChapters[n].bookIndex = 1
          /\ allImages[a].bookIndex = 0 /\ allImages[b].bookIndex = 1
          /\ allImages[a].originalHref = "pic.jpg" /\ allImages[b].originalHref = "pic.jpg"
          /\ Contains(SourceText(allChapters[m]), "pic.jpg")
          /\ Contains(SourceText(allChapters[n]), "pic.jpg")
          /\ Contains(allChapters[m].content, RelativePath(allImages[a]))
          /\ Contains(allChapters[n].content, RelativePath(allImages[b]))

(***************************************************************************)
(* C3.  For a chapter and an asset of the same book: if the source text    *)
(* holds the asset's original href, the rewritten text holds the asset's   *)
(* new relative reference, and the original href no longer occurs in it    *)
(* except as the tail of that new reference.                               *)
(***************************************************************************)
C3_SameBookReferenceRewritten ==
    Assembled =>
        \A n \in 1..Len(allChapters) : \A m \in 1..Len(RewriteAssets) :
            LET c == allChapters[n]
                a == RewriteAssets[m]
            IN  (a.bookIndex = c.bookIndex /\ Contains(SourceText(c), a.originalHref))
                    => /\ Contains(c.content, RelativePath(a))
                       /\ ~Contains(ReplaceAll(c.content, RelativePath(a), ""), a.originalHref)

(***************************************************************************)
(* C4.  The output spine has 1 + (number of chapters of all input books)   *)
(* entries, the first is the TOC page, the others are the chapters in      *)
(* accumulation order, and no chapter of a later book precedes a chapter   *)
(* of an earlier book.                                                     *)
(***************************************************************************)
C4_SpineShape ==
    Assembled =>
        /\ Len(spineItems) = 1 + TotalChapters(epubBuffers, 1)
        /\ spineItems[1] = "toc-page"
        /\ Len(allChapters) = Len(spineItems) - 1
        /\ \A n \in 1..Len(allChapters) : spineItems[n + 1] = allChapters[n].id
        /\ \A m, n \in 1..Len(allChapters) :
               m < n => allChapters[m].bookIndex <= allChapters[n].bookIndex

\* two books, the first with two chapters, the second with one
C4_Witness ==
    /\ Done
    /\ Len(spineItems) >= 4
    /\ \E m, n \in 1..Len(allChapters) :
          m < n /\ allChapters[m].bookIndex = 0 /\ allChapters[n].bookIndex = 0
    /\ \E n \in 1..Len(allChapters) : allChapters[n].bookIndex = 1

(***************************************************************************)
(* C5.  Every manifest href (resolved against OEBPS/), every spine idref   *)
(* (through a manifest item of that id) and every navPoint src names an    *)
(* entry of the output archive.                                            *)
(***************************************************************************)
C5_ReferencesPresent ==
    Done =>
        /\ \A n \in 1..Len(manifestItems) :
               InArchive(epubBuffer, ResolvePath("OEBPS/", manifestItems[n].href))
        /\ \A n \in 1..Len(spineItems) :
               \E m \in 1..Len(manifestItems) :
                   /\ manifestItems[m].id = spineItems[n]
                   /\ InArchive(epubBuffer, ResolvePath("OEBPS/", manifestItems[m].href))
        /\ \A n \in 1..Len(navPoints) :
               InArchive(epubBuffer, ResolvePath("OEBPS/", navPoints[n].src))

\* a merge with chapters, an image, a style and a font
C5_Witness ==
    /\ Done
    /\ allChapters # <<>> /\ allImages # <<>> /\ allStyles # <<>> /\ allFonts # <<>>
    /\ Len(manifestItems) >= 6
    /\ navPoints # <<>>

(***************************************************************************)
(* C6.  Every link of the TOC page, resolved against the page's own        *)
(* directory OEBPS/Text/, is the archive path of the first chapter of its  *)
(* book, and that path is an entry of the output archive.                  *)
(***************************************************************************)
C6_TocLinksResolve ==
    Done =>
        \A n \in 1..Len(tocHTML) :
            LET target == ResolvePath("OEBPS/Text/", tocHTML[n].link)
            IN  /\ target = BookFirstChapter(allChapters, tocHTML[n].number - 1).href
                /\ InArchive(epubBuffer, target)

\* the content of an asset as it was read from its source archive
SourceContent(asset) ==
    LET book == epubBuffers[asset.bookIndex + 1]
    IN  ZipFile(book, BaseDir(book) \o asset.originalHref)

AllAssets == allImages \o allStyles \o allFonts

(***************************************************************************)
(* C7.  For every extracted image, style and font the output archive holds *)
(* at the asset's href an entry whose content is the content read from the *)
(* source archive.                                                         *)
(***************************************************************************)
C7_AssetContentPreserved ==
    Done =>
        \A m \in 1..Len(AllAssets) :
            \E n \in 1..Len(epubBuffer) :
                /\ epubBuffer[n].name = AllAssets[m].href
                /\ epubBuffer[n].content = SourceContent(AllAssets[m])

\* the positions of the input buffers that are no ZIP archives, and the first of them
NonZipPositions == {b \in 1..Len(epubBuffers) : ~epubBuffers[b].isZip}

FirstNonZip == CHOOSE b \in NonZipPositions : \A c \in NonZipPositions : b <= c

(***************************************************************************)
(* C8.  When one of the input buffers is not a ZIP archive the call never  *)
(* gets past that buffer: it produces no output archive and no buffer, and *)
(* it ends rejected, wherever the bad buffer stands in the list.           *)
(***************************************************************************)
C8_NonZipRejects ==
    NonZipPositions # {} =>
        /\ pc \notin {"rewrite", "generate", "done"}
        /\ epubBuffer = <<>>
        /\ outputZip = <<>>
        /\ i <= FirstNonZip - 1
        /\ (i = FirstNonZip - 1 => pc \in {"load", "failed"})
        /\ (pc = "failed" => error # Absent)

\* the second buffer is the bad one and the first book was extracted before the call failed
C8_Witness ==
    /\ pc = "failed"
    /\ error = "Error"
    /\ Len(epubBuffers) = 2
    /\ epubBuffers[1].isZip /\ ~epubBuffers[2].isZip
    /\ i = 1
    /\ allChapters # <<>>
    /\ epubBuffer = <<>>

(***************************************************************************)
(* C9.  A failed merge tells its cause by the kind of the error: an        *)
(* archive without container.xml or without a root-file path fails with    *)
(* InvalidContainerError, an archive whose package document is absent or   *)
(* lacks metadata, manifest or spine with InvalidPackageDocumentError, and *)
(* a buffer that is no ZIP archive with neither of the two.                *)
(***************************************************************************)
C9_ErrorKinds ==
    pc = "failed" =>
        /\ (Book.isZip /\ Book.container \in {"absent", "nopath"})
               => error = "InvalidContainerError"
        /\ (Book.isZip /\ Book.container = "ok"
                /\ Book.opf \in {"absent", "nometadata", "nomanifest", "nospine"})
               => error = "InvalidPackageDocumentError"
        /\ ~Book.isZip
               => error \notin {"InvalidContainerError", "InvalidPackageDocumentError"}

\* a book the code reads without error
WellFormed(book) ==
    /\ book.isZip /\ book.container = "ok" /\ book.opf = "ok"
    /\ book.manifest # <<>> /\ book.spine # <<>>

HasDanglingIdref(book) ==
    \E p \in 1..Len(book.spine) : ~InManifestMap(book.manifest, book.spine[p])

ResolvableSpine(book) == SelectSeq(book.spine, LAMBDA id : IsChapter(book, id))

ChaptersOfBook(bookIndex) == SelectSeq(allChapters, LAMBDA c : c.bookIndex = bookIndex)

(***************************************************************************)
(* C10.  A spine itemref whose idref matches no manifest item of its book  *)
(* yields no chapter and no error: a list of well-formed books never       *)
(* fails, the chapters of every processed book are its resolvable spine    *)
(* entries in spine order, and the output spine counts only those.         *)
(***************************************************************************)
C10_DanglingIdrefSkipped ==
    /\ (\A b \in 1..Len(epubBuffers) : WellFormed(epubBuffers[b])) => pc # "failed"
    /\ \A b \in 1..Len(epubBuffers) :
           (b - 1 < i /\ WellFormed(epubBuffers[b])) =>
               LET own == ChaptersOfBook(b - 1)
                   kept == ResolvableSpine(epubBuffers[b])
               IN  /\ Len(own) = Len(kept)
                   /\ \A p \in 1..Len(kept) :
                          /\ own[p].id = "chapter_" \o NumberToString(b - 1) \o "_" \o kept[p]
                          /\ own[p].originalHref = ManifestMap(epubBuffers[b].manifest, kept[p]).href
    /\ Assembled => Len(spineItems) = 1 + TotalChapters(epubBuffers, 1)

\* a finished merge with a book whose spine has a dangling idref between two chapters
C10_Witness ==
    /\ Done
    /\ \E b \in 1..Len(epubBuffers) :
          /\ HasDanglingIdref(epubBuffers[b])
          /\ Len(ChaptersOfBook(b - 1)) = 2
          /\ Len(epubBuffers[b].spine) = 3
          /\ ~InManifestMap(epubBuffers[b].manifest, epubBuffers[b].spine[2])
    /\ Len(spineItems) = 1 + Len(allChapters)

\* whether the archive of a book holds the file of a manifest item
FilePresent(book, item) == (BaseDir(book) \o item.href) \in DOMAIN book.files

\* the manifest items of a kind whose file is in the archive, in manifest order
PresentImages(book) ==
    SelectSeq(book.manifest,
              LAMBDA it : StartsWith(it.mediaType, "image/") /\ FilePresent(book, it))

PresentStyles(book) ==
    SelectSeq(book.manifest, LAMBDA it : it.mediaType = CSS /\ FilePresent(book, it))

PresentFonts(book) ==
    SelectSeq(book.manifest, LAMBDA it : it.mediaType \in fontTypes /\ FilePresent(book, it))

\* the spine entries that name an XHTML manifest item whose file is in the archive
PresentChapters(book) ==
    SelectSeq(book.spine,
              LAMBDA id : /\ InManifestMap(book.manifest, id)
                          /\ ManifestMap(book.manifest, id).mediaType = XHTML
                          /\ FilePresent(book, ManifestMap(book.manifest, id)))

\* the records of a list that come from one book
OfBook(recs, bookIndex) == SelectSeq(recs, LAMBDA r : r.bookIndex = bookIndex)

\* the records of a book are exactly the given manifest items, in order
MatchesItems(recs, items) ==
    /\ Len(recs) = Len(items)
    /\ \A p \in 1..Len(items) : recs[p].originalHref = items[p].href

(***************************************************************************)
(* C11.  A manifest item whose file is absent from its source archive is   *)
(* skipped and nothing else: a list of well-formed books never fails, and  *)
(* the chapters, images, styles and fonts of every processed book are      *)
(* exactly its items whose file is present, in order.                      *)
(***************************************************************************)
C11_MissingFileSkipped ==
    /\ (\A b \in 1..Len(epubBuffers) : WellFormed(epubBuffers[b])) => pc # "failed"
    /\ \A b \in 1..Len(epubBuffers) :
           (b - 1 < i /\ WellFormed(epubBuffers[b])) =>
               LET book == epubBuffers[b]
                   kept == PresentChapters(book)
                   own == OfBook(allChapters, b - 1)
               IN  /\ Len(own) = Len(kept)
                   /\ \A p \in 1..Len(kept) :
                          own[p].originalHref = ManifestMap(book.manifest, kept[p]).href
                   /\ MatchesItems(OfBook(allImages, b - 1), PresentImages(book))
                   /\ MatchesItems(OfBook(allStyles, b - 1), PresentStyles(book))
                   /\ MatchesItems(OfBook(allFonts, b - 1), PresentFonts(book))

\* a finished merge of two books, one of which lacks the files of a chapter, an
\* image, a style and a font and has a chapter and an image whose files are present
C11_Witness ==
    /\ Done
    /\ Len(epubBuffers) = 2
    /\ \E b \in 1..2 :
          LET book == epubBuffers[b]
          IN  /\ \E p \in 1..Len(book.manifest) :
                     book.manifest[p].mediaType = JPEG /\ ~FilePresent(book, book.manifest[p])
              /\ \E p \in 1..Len(book.manifest) :
                     book.manifest[p].mediaType = XHTML /\ ~FilePresent(book, book.manifest[p])
              /\ \E p \in 1..Len(book.manifest) :
                     book.manifest[p].mediaType = CSS /\ ~FilePresent(book, book.manifest[p])
              /\ \E p \in 1..Len(book.manifest) :
                     book.manifest[p].mediaType = TTF /\ ~FilePresent(book, book.manifest[p])
              /\ Len(OfBook(allImages, b - 1)) = 1
              /\ Len(OfBook(allChapters, b - 1)) = 1
              /\ Len(OfBook(allChapters, 2 - b)) >= 1

\* a book whose container and package document are there, with all three sections
\* and at least one manifest item
HasAllSections(book) ==
    book.isZip /\ book.container = "ok" /\ book.opf = "ok" /\ book.manifest # <<>>

\* whether the TOC page has an entry for the book at a (0-based) index
HasTocEntry(bookIndex) == \E n \in 1..Len(tocHTML) : tocHTML[n].number = bookIndex + 1

(***************************************************************************)
(* C12.  A source book that yields no chapter (its spine lists no itemref, *)
(* or no spine entry resolves to an XHTML item whose file exists) does not *)
(* abort the merge: the merge does not fail, that book has no TOC entry,   *)
(* and every book that yields a chapter has its TOC entry.                 *)
(***************************************************************************)
C12_ZeroChapterBookTolerated ==
    (\A b \in 1..Len(epubBuffers) : HasAllSections(epubBuffers[b])) =>
        /\ pc # "failed"
        /\ Done => \A b \in 1..Len(epubBuffers) :
                       HasTocEntry(b - 1) <=> PresentChapters(epubBuffers[b]) # <<>>

\* the fallback titles by 1-based position
FallbackTitles == <<"Book 1", "Book 2", "Book 3", "Book 4", "Book 5">>

(***************************************************************************)
(* C13.  The BookMetadata of the book at 0-based position n - 1 has the    *)
(* source dc:title, or 'Book n' when there is none, and the source         *)
(* dc:creator, or 'Unknown Author' when there is none; a missing dc:title  *)
(* or dc:creator never aborts the merge.                                   *)
(***************************************************************************)
C13_BookMetadataFallbacks ==
    /\ (\A b \in 1..Len(epubBuffers) : WellFormed(epubBuffers[b])) => pc # "failed"
    /\ \A b \in 1..Len(epubBuffers) :
           (b - 1 < i /\ WellFormed(epubBuffers[b])) => Len(bookMetadata) >= b
    /\ \A n \in 1..Len(bookMetadata) :
           LET book == epubBuffers[n]
           IN  /\ bookMetadata[n].bookIndex = n - 1
               /\ bookMetadata[n].title =
                      IF book.title = Absent THEN FallbackTitles[n] ELSE book.title
               /\ bookMetadata[n].author =
                      IF book.creator = Absent THEN "Unknown Author" ELSE book.creator

\* a finished merge whose first book has no dc:creator and whose second has no dc:title
C13_Witness ==
    /\ Done
    /\ Len(epubBuffers) = 2
    /\ epubBuffers[1].creator = Absent /\ epubBuffers[1].title # Absent
    /\ epubBuffers[2].title = Absent /\ epubBuffers[2].creator # Absent
    /\ bookMetadata[1].author = "Unknown Author"
    /\ bookMetadata[2].title = "Book 2"

TocEntriesOf(b) == {n \in 1..Len(tocHTML) : tocHTML[n].number = b}

(***************************************************************************)
(* C15.  The TOC page has exactly one entry for each input book that       *)
(* contributed at least one chapter and none for the others; the entries   *)
(* are in input-book order; each entry links to the href of the chapter    *)
(* with the lowest spine position among the chapters of its book, the book *)
(* with index 0 included.                                                  *)
(***************************************************************************)
C15_TocEntryPerContributingBook ==
    Assembled =>
        /\ \A b \in 1..Len(epubBuffers) :
               Cardinality(TocEntriesOf(b)) = IF ChaptersOfBook(b - 1) # <<>> THEN 1 ELSE 0
        /\ \A n \in 1..Len(tocHTML) : tocHTML[n].number \in 1..Len(epubBuffers)
        /\ \A m, n \in 1..Len(tocHTML) : m < n => tocHTML[m].number < tocHTML[n].number
        /\ \A n \in 1..Len(tocHTML) :
               LET book == epubBuffers[tocHTML[n].number]
                   first == ChaptersOfBook(tocHTML[n].number - 1)[1]
               IN  /\ "OEBPS/" \o tocHTML[n].link = first.href
                   /\ first.originalHref =
                          ManifestMap(book.manifest, PresentChapters(book)[1]).href

\* two contributing books, the one with index 0 holding two chapters of different hrefs
C15_Witness ==
    /\ Done
    /\ Len(epubBuffers) = 2
    /\ Len(tocHTML) = 2
    /\ Len(ChaptersOfBook(0)) >= 2
    /\ ChaptersOfBook(0)[1].href # ChaptersOfBook(0)[2].href
    /\ tocHTML[1].number = 1
    /\ "OEBPS/" \o tocHTML[1].link = ChaptersOfBook(0)[1].href

\* the decimal numerals of the positions a navPoint can take
Numerals == <<"1", "2", "3", "4", "5", "6", "7", "8", "9", "10", "11", "12", "13", "14", "15", "16">>

SourceIdentifiers == {epubBuffers[b].identifier : b \in 1..Len(epubBuffers)}

\* content.opf and toc.ncx carry the generated identifier, which no source book has
IdentifierFresh ==
    /\ combinedMetadata.identifier \in UUIDs
    /\ combinedMetadata.identifier \notin SourceIdentifiers
    /\ Assembled =>
           /\ opfContent.metadata.identifier = combinedMetadata.identifier
           /\ ncxContent.head.uid = opfContent.metadata.identifier

(***************************************************************************)
(* C17.  Within one merge the dc:identifier of content.opf and the dtb:uid *)
(* meta of toc.ncx carry the same value; that value is generated once for  *)
(* the call, no step of the call changes it, and it is not the identifier  *)
(* of any source book.                                                     *)
(***************************************************************************)
C17_OneFreshIdentifier ==
    /\ []IdentifierFresh
    /\ [][combinedMetadata'.identifier = combinedMetadata.identifier]_vars

\* a finished merge whose first book carries an identifier, a title, an author and a language
C17_Witness ==
    /\ Done
    /\ Len(epubBuffers) = 2
    /\ epubBuffers[1].identifier # Absent
    /\ opfContent.metadata.title = epubBuffers[1].title
    /\ opfContent.metadata.language = epubBuffers[1].language
    /\ opfContent.metadata.identifier = "uuid-2"
    /\ ncxContent.head.uid = "uuid-2"

(***************************************************************************)
(* Definitions shared by the properties of POST /combine-epubs.            *)
(***************************************************************************)
\* combineEpubs has been called for the request
CoreInvoked == pc # "idle"

\* the response has been sent
Responded == httpPc = "responded"

\* the response is the JSON error body with that status and error
Answered(status, error_) ==
    /\ Responded
    /\ res.status = status
    /\ res.body.kind = "json"
    /\ res.body.error = error_

\* the number of uploaded files
NumFiles == Len(request)

\* the file is in the field 'epubs' and is an EPUB by MIME type or by name
EpubUpload(file) ==
    /\ file.fieldname = "epubs"
    /\ \/ file.mimetype = "application/epub+zip"
       \/ EndsWith(file.originalname, ".epub")

\* the file parts the upload middleware examines: those up to the files limit
Examined == {p \in 1..NumFiles : p <= maxFiles}

\* the examined file parts the upload middleware rejects
Unacceptable ==
    {p \in Examined : ~EpubUpload(request[p]) \/ request[p].size > maxFileSize}

\* the first of them
FirstUnacceptable == CHOOSE p \in Unacceptable : \A q \in Unacceptable : p <= q

C19_InvalidFileTypeResponse ==
    (/\ Responded
     /\ Unacceptable # {}
     /\ request[FirstUnacceptable].fieldname = "epubs"
     /\ ~EpubUpload(request[FirstUnacceptable])) =>
        /\ res.body.kind = "json"
        /\ res.body.error = "Invalid file type"
        /\ res.body.message = "Only EPUB files are allowed"
        /\ ~CoreInvoked

\* an application/epub+zip Content-Type or a Content-Disposition header is set
EpubHeadersSet ==
    \E h \in res.headers : h[1] = "Content-Disposition" \/ h = <<"Content-Type", "application/epub+zip">>

(***************************************************************************)
(* C20.  When combineEpubs throws for a request that passed the file-count *)
(* validation, the handler answers with status 500 and a JSON error body;  *)
(* no EPUB bytes and no application/epub+zip Content-Type or               *)
(* Content-Disposition header are sent for that request.                   *)
(***************************************************************************)
C20_CoreFailureAnswered500 ==
    pc = "failed" =>
        /\ CoreInvoked
        /\ httpPc \in {"await", "responded"}
        /\ ~EpubHeadersSet
        /\ res.body.kind # "epub"
        /\ res.body.buffer = <<>>
        /\ Responded =>
               /\ Answered(500, "Internal server error")
               /\ res.body.message = "Failed to combine EPUB files"
               /\ res.body.details = error

\* two accepted files, the second without spine entries: the call throws at its second book
C20_Witness ==
    /\ Responded
    /\ pc = "failed"
    /\ NumFiles = 2
    /\ i = 1
    /\ error = "TypeError"
    /\ res.status = 500
    /\ res.body.kind = "json"

\* the locals of call c
CallState(c) == IF current = c THEN Locals ELSE other

\* the records a call run alone extracts from one book: the items whose file is present
RecordsOf(book, index, kind) ==
    CASE kind = "chapter" ->
             [p \in 1..Len(PresentChapters(book)) |->
                 NewChapter(book, index, PresentChapters(book)[p])]
      [] kind = "image" ->
             [p \in 1..Len(PresentImages(book)) |->
                 NewAsset(book, index, PresentImages(book)[p], "img", "Images")]
      [] kind = "style" ->
             [p \in 1..Len(PresentStyles(book)) |->
                 NewAsset(book, index, PresentStyles(book)[p], "style", "Styles")]
      [] kind = "font" ->
             [p \in 1..Len(PresentFonts(book)) |->
                 NewAsset(book, index, PresentFonts(book)[p], "font", "Fonts")]

\* those of the first n books, in book order
RECURSIVE AloneRecords(_, _, _)
AloneRecords(bufs, n, kind) ==
    IF n = 0 THEN <<>>
    ELSE AloneRecords(bufs, n - 1, kind) \o RecordsOf(bufs[n], n - 1, kind)

\* a call run alone on these buffers throws
AloneFails(bufs) == \E b \in 1..Len(bufs) : ~WellFormed(bufs[b])

\* what a call run alone on these buffers produces
Alone(bufs) ==
    LET images == AloneRecords(bufs, Len(bufs), "image")
        styles == AloneRecords(bufs, Len(bufs), "style")
        fonts == AloneRecords(bufs, Len(bufs), "font")
        chapters == RewriteChapters(AloneRecords(bufs, Len(bufs), "chapter"), images, styles)
        books == [n \in 1..Len(bufs) |-> BookMetadataOf(bufs[n], n - 1)]
    IN  [allChapters |-> chapters, allImages |-> images, allStyles |-> styles,
         allFonts |-> fonts, bookMetadata |-> books,
         tocHTML |-> TocEntries(chapters, books),
         manifestItems |-> ManifestItems(chapters, images, styles, fonts),
         spineItems |-> SpineItems(chapters)]

\* the call's chapters, assets, book metadata, TOC, manifest and spine are those of a run alone
SameAsAlone(s) ==
    LET alone == Alone(s.epubBuffers)
    IN  /\ s.allChapters = alone.allChapters
        /\ s.allImages = alone.allImages
        /\ s.allStyles = alone.allStyles
        /\ s.allFonts = alone.allFonts
        /\ s.bookMetadata = alone.bookMetadata
        /\ s.tocHTML = alone.tocHTML
        /\ s.manifestItems = alone.manifestItems
        /\ s.spineItems = alone.spineItems

(***************************************************************************)
(* C21.  Two combineEpubs calls that interleave at any of their awaits do  *)
(* not influence each other: a call that returns has the chapters, assets, *)
(* book metadata, TOC, manifest and spine it produces when run alone on    *)
(* the same buffers, and a call throws only if it throws when run alone.   *)
(***************************************************************************)
C21_ConcurrentCallsIndependent ==
    \A c \in 1..2 :
        /\ CallState(c).pc \in {"generate", "done"} =>
               (~AloneFails(CallState(c).epubBuffers) /\ SameAsAlone(CallState(c)))
        /\ CallState(c).pc = "failed" => AloneFails(CallState(c).epubBuffers)

\* both calls are suspended or running in the middle of their second book, each with chapters
C21_Witness ==
    /\ current = 2
    /\ pc = "images" /\ i = 1 /\ allChapters # <<>>
    /\ other.pc = "chapters" /\ other.i = 1 /\ other.allChapters # <<>>
    /\ epubBuffers # other.epubBuffers

\* the ids of the output spine that belong to the book at a 0-based index, in output order
SpineItemsOfBook(bookIndex) ==
    SelectSeq(spineItems,
              LAMBDA id : StartsWith(id, "chapter_" \o NumberToString(bookIndex) \o "_"))

\* the spine idrefs of a source book that resolve to an XHTML manifest item
XhtmlSpine(book) ==
    SelectSeq(book.spine,
              LAMBDA id : \E n \in 1..Len(book.manifest) :
                              /\ book.manifest[n].id = id
                              /\ ManifestMap(book.manifest, id).mediaType = XHTML)

\* whether seq is sub, with some elements left out
RECURSIVE IsSubsequence(_, _)
IsSubsequence(sub, seq) ==
    IF sub = <<>> THEN TRUE
    ELSE IF seq = <<>> THEN FALSE
    ELSE IF Head(sub) = Head(seq) THEN IsSubsequence(Tail(sub), Tail(seq))
    ELSE IsSubsequence(sub, Tail(seq))

(***************************************************************************)
(* C22.  Within each source book, the order of its chapters in the merged  *)
(* output is the order of their idrefs in that book's spine, whatever the  *)
(* order of the manifest; only spine entries that resolve to a manifest    *)
(* item of media type application/xhtml+xml become chapters.               *)
(***************************************************************************)
C22_ChaptersInSpineOrder ==
    Assembled =>
        \A b \in 1..Len(epubBuffers) :
            LET out == SpineItemsOfBook(b - 1)
                kept == PresentChapters(epubBuffers[b])
            IN  /\ Len(out) = Len(kept)
                /\ \A p \in 1..Len(out) :
                       out[p] = "chapter_" \o NumberToString(b - 1) \o "_" \o kept[p]
                /\ IsSubsequence(kept, XhtmlSpine(epubBuffers[b]))
                /\ IsSubsequence(kept, epubBuffers[b].spine)

\* a finished merge whose second book declares c2 before c1 and reads c1 before c2
C22_Witness ==
    /\ Done
    /\ Len(epubBuffers) = 2
    /\ epubBuffers[2].manifest[1].id = "c2"
    /\ PresentChapters(epubBuffers[2]) = <<"c1", "c2">>
    /\ SpineItemsOfBook(1) = <<"chapter_1_c1", "chapter_1_c2">>
    /\ Len(SpineItemsOfBook(0)) >= 1

(***************************************************************************)
(* C23.  The rewriting pass applies to the fonts of the chapter's own book *)
(* as it does to images and styles: when the source text of a chapter      *)
(* holds the originalHref of a font of the same book, the chapter written  *)
(* to the output holds the font's new relative reference in its place.     *)
(***************************************************************************)
C23_FontReferencesRewritten ==
    Assembled =>
        \A c \in 1..Len(allChapters) : \A f \in 1..Len(allFonts) :
            (/\ allFonts[f].bookIndex = allChapters[c].bookIndex
             /\ Contains(SourceText(allChapters[c]), allFonts[f].originalHref)) =>
                Contains(allChapters[c].content, RelativePath(allFonts[f]))

\* the position of the entry with that name in the returned archive
EntryPosition(name) == CHOOSE n \in 1..Len(epubBuffer) : epubBuffer[n].name = name

(***************************************************************************)
(* C24.  The entries of the returned archive are, in order: mimetype,      *)
(* META-INF/container.xml, OEBPS/content.opf, OEBPS/toc.ncx, and only then *)
(* the chapters and assets: content.opf and toc.ncx precede every chapter  *)
(* and asset entry.                                                        *)
(***************************************************************************)
C24_EntryOrder ==
    Done =>
        /\ Len(epubBuffer) >= 4
        /\ epubBuffer[1].name = "mimetype"
        /\ epubBuffer[2].name = "META-INF/container.xml"
        /\ epubBuffer[3].name = "OEBPS/content.opf"
        /\ epubBuffer[4].name = "OEBPS/toc.ncx"
        /\ \A r \in 1..Len(AllRecords) :
               /\ EntryPosition("OEBPS/content.opf") < EntryPosition(AllRecords[r].href)
               /\ EntryPosition("OEBPS/toc.ncx") < EntryPosition(AllRecords[r].href)

\* the spine entries of the output package that a reader resolves to an XHTML manifest item
ReadBackSpine ==
    SelectSeq(spineItems,
              LAMBDA id : \E n \in 1..Len(manifestItems) :
                              manifestItems[n].id = id /\ manifestItems[n].mediaType = XHTML)

FirstBookOr(field, fallback) == IF field = Absent THEN fallback ELSE field

Segment(text, inserted) == [text |-> text, inserted |-> inserted]

\* a piece of source text cut at every occurrence of pat, each replaced by an inserted rep
RECURSIVE SplitText(_, _, _)
SplitText(text, pat, rep) ==
    LET hits == {h \in 1..Len(text) : MatchAt(text, pat, h)}
    IN  IF pat = "" \/ hits = {} THEN <<Segment(text, FALSE)>>
        ELSE LET h == CHOOSE x \in hits : \A y \in hits : x <= y
             IN  <<Segment(SubSeq(text, 1, h - 1), FALSE), Segment(rep, TRUE)>>
                 \o SplitText(SubSeq(text, h + Len(pat), Len(text)), pat, rep)

\* one asset applied to the pieces from position n on: inserted references are left alone
RECURSIVE ReplaceInSource(_, _, _)
ReplaceInSource(segments, asset, n) ==
    IF n > Len(segments) THEN <<>>
    ELSE (IF segments[n].inserted THEN <<segments[n]>>
          ELSE SplitText(segments[n].text, asset.originalHref, RelativePath(asset)))
         \o ReplaceInSource(segments, asset, n + 1)

\* the assets applied in order from position n on, each to source text only
RECURSIVE RewriteSourceOnly(_, _, _)
RewriteSourceOnly(segments, assets, n) ==
    IF n > Len(assets) THEN segments
    ELSE RewriteSourceOnly(ReplaceInSource(segments, assets[n], 1), assets, n + 1)

\* the text the pieces make up
RECURSIVE JoinSegments(_)
JoinSegments(segments) ==
    IF segments = <<>> THEN "" ELSE Head(segments).text \o JoinSegments(Tail(segments))

(***************************************************************************)
(* C27.  The rewriting of a chapter does not cascade: a reference inserted *)
(* for one asset is never matched and altered when a later asset of the    *)
(* same book is processed, so the rewritten text is the source text with   *)
(* every original reference replaced once, by one well-formed new          *)
(* reference.                                                              *)
(***************************************************************************)
C27_RewritingDoesNotCascade ==
    Assembled =>
        \A n \in 1..Len(allChapters) :
            allChapters[n].content =
                JoinSegments(RewriteSourceOnly(<<Segment(SourceText(allChapters[n]), FALSE)>>,
                                               OwnAssets(allChapters[n]), 1))

(***************************************************************************)
(* C28.  Every reference written by the rewriting pass resolves to the     *)
(* right file: the new reference inserted into a chapter for an image or   *)
(* style of its own book, resolved against the chapter's folder in the     *)
(* output archive, is the archive path (href) of that asset, and the       *)
(* archive has an entry at that path.                                      *)
(***************************************************************************)
C28_NewReferencesResolve ==
    Assembled =>
        \A n \in 1..Len(allChapters) : \A m \in 1..Len(RewriteAssets) :
            LET c == allChapters[n]
                a == RewriteAssets[m]
            IN  (a.bookIndex = c.bookIndex /\ Contains(SourceText(c), a.originalHref)) =>
                    /\ ResolvePath(DirName(c.href), RelativePath(a)) = a.href
                    /\ InArchive(outputZip, ResolvePath(DirName(c.href), RelativePath(a)))

\* a finished merge with a chapter that holds the new references of an image and of a style
C28_Witness ==
    /\ Done
    /\ Len(epubBuffers) = 2
    /\ \E n \in 1..Len(allChapters) : \E a \in 1..Len(allImages) : \E b \in 1..Len(allStyles) :
          /\ allImages[a].bookIndex = allChapters[n].bookIndex
          /\ allStyles[b].bookIndex = allChapters[n].bookIndex
          /\ allChapters[n].bookIndex = 1
          /\ Contains(SourceText(allChapters[n]), allImages[a].originalHref)
          /\ Contains(allChapters[n].content, RelativePath(allImages[a]))
          /\ Contains(allChapters[n].content, RelativePath(allStyles[b]))
          /\ ResolvePath("OEBPS/Text/", RelativePath(allImages[a])) = allImages[a].href

\* the source text of the chapter names no image and no style of its own book
NamesNoOwnAsset(chapter) ==
    \A m \in 1..Len(RewriteAssets) :
        RewriteAssets[m].bookIndex = chapter.bookIndex =>
            ~Contains(SourceText(chapter), RewriteAssets[m].originalHref)

\* the content of the entry of that name in the output archive
EntryContent(zip, name) == zip[CHOOSE n \in 1..Len(zip) : zip[n].name = name].content

(***************************************************************************)
(* C29.  A chapter whose source text holds no occurrence of the original   *)
(* href of any image or style of its own book is written to the output     *)
(* with content identical to the text read from the source archive.        *)
(***************************************************************************)
C29_UnreferencingChapterUnchanged ==
    Assembled =>
        \A n \in 1..Len(allChapters) :
            NamesNoOwnAsset(allChapters[n]) =>
                /\ allChapters[n].content = SourceText(allChapters[n])
                /\ InArchive(outputZip, allChapters[n].href)
                /\ EntryContent(outputZip, allChapters[n].href) = SourceText(allChapters[n])

\* a finished merge with a chapter that names none of the image and style of its own book
C29_Witness ==
    /\ Done
    /\ \E n \in 1..Len(allChapters) :
          /\ NamesNoOwnAsset(allChapters[n])
          /\ \E a \in 1..Len(allImages) : allImages[a].bookIndex = allChapters[n].bookIndex
          /\ \E b \in 1..Len(allStyles) : allStyles[b].bookIndex = allChapters[n].bookIndex
          /\ EntryContent(epubBuffer, allChapters[n].href) = "font f.ttf"

\* the response sent is the EPUB download, a 400 JSON error or a 500 JSON error
DownloadOrError ==
    \/ res.status = 200 /\ res.body.kind = "epub"
    \/ res.status = 400 /\ res.body.kind = "json"
    \/ res.status = 500 /\ res.body.kind = "json"

(***************************************************************************)
(* C30.  Every POST /combine-epubs request eventually receives exactly one *)
(* response, the 200 EPUB download, a 400 error or a 500 error; no second  *)
(* response is ever sent after the first one.                              *)
(***************************************************************************)
C30_ExactlyOneResponse ==
    /\ [](res.sent <= 1)
    /\ [](res.sent = 1 => (Responded /\ DownloadOrError))
    /\ <>(res.sent = 1)

\* the request has been answered with the EPUB download, once
C30_Witness ==
    /\ Responded
    /\ res.sent = 1
    /\ res.status = 200
    /\ res.body.kind = "epub"
    /\ res.body.buffer = epubBuffer
    /\ Len(epubBuffer) >= 6

=============================================================================
